---- MODULE Spec2Model ----
(***************************************************************************)
(* Model of switchboard/script/run.ts: the one-shot price update workflow  *)
(* (updatePrices / fetchFeedData / main) and its two pure helpers          *)
(* normalizeFeedHash and formatValue.                                      *)
(*                                                                         *)
(* Strings that the code inspects character by character (feed hashes,     *)
(* formatted numbers) are sequences of one-character strings.  Strings     *)
(* that the code only passes around or tests for emptiness are TLA+        *)
(* strings.  An optional value is a sequence of length 0 or 1.             *)
(***************************************************************************)
EXTENDS Integers, Sequences, FiniteSets, TLC

VARIABLES env, deploymentsFile, pc, balance, gatewayReqs, gatewayResps,
          feedData, feeQueries, fee, txs, receipt, readbackArgs, price,
          isFresh, report, calls, exitCode, error, nh, fv

wfVars == <<env, deploymentsFile, pc, balance, gatewayReqs, gatewayResps,
            feedData, feeQueries, fee, txs, receipt, readbackArgs, price,
            isFresh, report, calls, exitCode, error>>

vars == <<env, deploymentsFile, pc, balance, gatewayReqs, gatewayResps,
          feedData, feeQueries, fee, txs, receipt, readbackArgs, price,
          isFresh, report, calls, exitCode, error, nh, fv>>

(***************************************************************************)
(* Bounds                                                                  *)
(***************************************************************************)
\* longest enumerated feed identifier (the 64-character default is added)
MaxLen == 3
\* largest decimal scale given to formatValue (the script's default is 18)
MaxDecimals == 2
\* formatValue is applied to every value in -MaxAbsValue..MaxAbsValue
MaxAbsValue == 120
\* balances and fees range over 0..MaxWei
MaxWei == 2
\* decimal scale used for the report of the read-back value
ReportDecimals == 2

(***************************************************************************)
(* Character helpers                                                       *)
(***************************************************************************)
Prefix0x == <<"0", "x">>

Alphabet == {"0", "x", "4", "c", "C", "X"}

LowerHexDigits == {"0", "1", "2", "3", "4", "5", "6", "7", "8", "9",
                   "a", "b", "c", "d", "e", "f"}

UpperHexDigits == {"A", "B", "C", "D", "E", "F"}

DecDigits == <<"0", "1", "2", "3", "4", "5", "6", "7", "8", "9">>

\* String.prototype.startsWith
StartsWith(s, p) == Len(s) >= Len(p) /\ SubSeq(s, 1, Len(p)) = p

\* String.prototype.slice(n) for 0 <= n
SliceFrom(s, n) == SubSeq(s, n + 1, Len(s))

(***************************************************************************)
(* normalizeFeedHash, run.ts:13-15                                         *)
(***************************************************************************)
\* faulty variant: prepends the prefix without looking at the argument
normalizeFeedHashAlwaysPrefix(hash) == Prefix0x \o hash

ToLowerChar(c) ==
    CASE c = "A" -> "a" [] c = "B" -> "b" [] c = "C" -> "c"
      [] c = "D" -> "d" [] c = "E" -> "e" [] c = "F" -> "f"
      [] c = "X" -> "x" [] OTHER -> c

\* faulty variant: lowercases the identifier as well
normalizeFeedHashLowercase(hash) ==
    LET low == [i \in 1..Len(hash) |-> ToLowerChar(hash[i])]
    IN  IF StartsWith(low, Prefix0x) THEN low ELSE Prefix0x \o low

normalizeFeedHash(hash) ==
    IF StartsWith(hash, Prefix0x) THEN hash ELSE Prefix0x \o hash

\* the identifier sent to the gateway, run.ts:112-115
feedHashForCrossbar(feedHash) ==
    LET normalizedFeedHash == normalizeFeedHash(feedHash)
    IN  IF StartsWith(normalizedFeedHash, Prefix0x)
        THEN SliceFrom(normalizedFeedHash, 2)
        ELSE normalizedFeedHash

(***************************************************************************)
(* formatValue, run.ts:17-29                                               *)
(***************************************************************************)
RECURSIVE Pow10(_)
Pow10(n) == IF n = 0 THEN 1 ELSE 10 * Pow10(n - 1)

\* BigInt division truncates toward zero; the remainder has the dividend's sign
BigIntDiv(a, b) == IF a >= 0 THEN a \div b ELSE -((-a) \div b)

BigIntRem(a, b) == a - b * BigIntDiv(a, b)

RECURSIVE NatToString(_)
NatToString(n) ==
    IF n < 10 THEN <<DecDigits[n + 1]>>
    ELSE NatToString(n \div 10) \o <<DecDigits[(n % 10) + 1]>>

\* BigInt.prototype.toString
BigIntToString(n) == IF n < 0 THEN <<"-">> \o NatToString(-n) ELSE NatToString(n)

\* String.prototype.padStart(len, '0')
PadStart0(s, len) ==
    IF Len(s) >= len THEN s ELSE [i \in 1..(len - Len(s)) |-> "0"] \o s

\* String.prototype.replace(/0+$/, '')
RECURSIVE TrimTrailingZeros(_)
TrimTrailingZeros(s) ==
    IF s # <<>> /\ s[Len(s)] = "0"
    THEN TrimTrailingZeros(SubSeq(s, 1, Len(s) - 1))
    ELSE s

formatValue(value, decimals) ==
    LET divisor == Pow10(decimals)
        whole == BigIntDiv(value, divisor)
        fraction == BigIntRem(value, divisor)
        fractionStr == PadStart0(BigIntToString(fraction), decimals)
        trimmed == TrimTrailingZeros(fractionStr)
    IN  IF fraction = 0 THEN BigIntToString(whole)
        ELSE BigIntToString(whole) \o <<".">> \o trimmed

(***************************************************************************)
(* Process environment, NETWORKS and config, run.ts:52-78                  *)
(***************************************************************************)
DefaultFeedHashDigits ==
    <<"4", "c", "d", "1", "c", "a", "d", "9", "6", "2", "4", "2", "5", "6",
      "8", "1", "a", "f", "0", "7", "b", "9", "2", "5", "4", "b", "7", "d",
      "8", "0", "4", "d", "e", "3", "c", "a", "3", "4", "4", "6", "f", "b",
      "f", "d", "1", "3", "7", "1", "b", "b", "2", "5", "8", "d", "2", "c",
      "7", "5", "0", "5", "9", "8", "1", "2">>

DefaultFeedHash == Prefix0x \o DefaultFeedHashDigits

DefaultRpcUrl == "https://testnet-rpc.monad.xyz"

NETWORKS ==
    [k \in {"monad-testnet", "monad-mainnet"} |->
        IF k = "monad-testnet"
        THEN [name |-> "Monad Testnet", chainId |-> 10143,
              switchboard |-> "0xD3860E2C66cBd5c969Fa7343e6912Eff0416bA33"]
        ELSE [name |-> "Monad Mainnet", chainId |-> 143,
              switchboard |-> "0xB7F03eee7B9F56347e32cC71DaD65B303D5a0E67"]]

\* values of the environment variables; "" and <<>> stand for an unset variable
RpcUrlEnv == {"", "https://rpc.example"}

PrivateKeyEnv == {"", "not-a-key", "0xkey"}

NetworkEnv == {"", "monad-testnet", "monad-mainnet", "other-net"}

FeedHashEnv == {<<>>, <<"4", "c", "D", "1">>, <<"0", "x", "4", "c", "d", "1">>}

EnvSet == [RPC_URL : RpcUrlEnv, PRIVATE_KEY : PrivateKeyEnv,
           NETWORK : NetworkEnv, FEED_HASH : FeedHashEnv]

\* `process.env.X || default`
config ==
    [rpcUrl     |-> IF env.RPC_URL = "" THEN DefaultRpcUrl ELSE env.RPC_URL,
     privateKey |-> IF env.PRIVATE_KEY = "" THEN "" ELSE env.PRIVATE_KEY,
     network    |-> IF env.NETWORK = "" THEN "monad-testnet" ELSE env.NETWORK,
     feedHash   |-> IF env.FEED_HASH = <<>> THEN DefaultFeedHash ELSE env.FEED_HASH]

\* keys that `new ethers.Wallet` accepts, run.ts:225
ValidPrivateKeys == {"0xkey"}

(***************************************************************************)
(* deployments.json and loadDeployments, run.ts:31-37                      *)
(***************************************************************************)
DeployKeys == {"monadTestnet", "monadMainnet"}

\* exists: the file is there; valid: JSON.parse accepts it;
\* keys: the network keys that carry a SwitchBoardTest entry
DeploymentFiles ==
    {[exists |-> FALSE, valid |-> FALSE, keys |-> {}],
     [exists |-> TRUE, valid |-> FALSE, keys |-> {}]}
    \cup {[exists |-> TRUE, valid |-> TRUE, keys |-> K] : K \in SUBSET DeployKeys}

NoError == [message |-> <<>>, amounts |-> <<>>]

Err(message, amounts) == [message |-> message, amounts |-> amounts]

loadDeployments(file) ==
    IF ~file.exists
    THEN [ok |-> FALSE,
          error |-> Err(<<"deployments.json not found. Please deploy the contract first.">>, <<>>)]
    ELSE IF ~file.valid
    THEN [ok |-> FALSE, error |-> Err(<<"SyntaxError">>, <<>>)]
    ELSE [ok |-> TRUE, error |-> NoError]

\* run.ts:203
networkKey == IF config.network = "monad-testnet" THEN "monadTestnet" ELSE "monadTestnet"

(***************************************************************************)
(* main, run.ts:324-338: a rejection of updatePrices ends the process      *)
(* with exit code 1; a normal return lets it end with exit code 0.         *)
(***************************************************************************)
Throw(e) ==
    /\ pc' = "exited"
    /\ exitCode' = <<1>>
    /\ error' = e

Continue(next) ==
    /\ pc' = next
    /\ UNCHANGED <<exitCode, error>>

RpcError == Err(<<"rpc error">>, <<>>)

ReadBackCalls == <<"getPrice", "isPriceFresh", "getPriceAge", "maxPriceAge",
                   "maxDeviationBps">>

\* payloads the gateway may return in `encoded`; "" is a missing payload
EncodedValues == {"", "0xaa", "0xbb"}

\* medianResponses of the gateway response: absent/empty, or one median value
MedianResponses == {<<>>, <<150>>}

\* values the getPrice read-back may return (int128)
PriceValues == {-150, 0, 150}

ReceiptStatuses == {0, 1}

(***************************************************************************)
(* updatePrices, run.ts:164-318                                            *)
(***************************************************************************)
\* STEP 1, run.ts:173-188
ValidateConfig ==
    /\ pc = "validate"
    /\ IF config.rpcUrl = ""
       THEN Throw(Err(<<"RPC_URL environment variable is required">>, <<>>))
       ELSE IF config.privateKey = ""
       THEN Throw(Err(<<"PRIVATE_KEY environment variable is required">>, <<>>))
       ELSE IF config.network \notin DOMAIN NETWORKS
       THEN Throw(Err(<<"Unknown network: ", config.network>>, <<>>))
       ELSE Continue("load")
    /\ UNCHANGED <<env, deploymentsFile, balance, gatewayReqs, gatewayResps,
                   feedData, feeQueries, fee, txs, receipt, readbackArgs,
                   price, isFresh, report, calls, nh, fv>>

\* faulty variant of STEP 2: goes on whatever the deployment file holds
LoadDeploymentsUnchecked ==
    /\ pc = "load"
    /\ Continue("setup")
    /\ UNCHANGED <<env, deploymentsFile, balance, gatewayReqs, gatewayResps,
                   feedData, feeQueries, fee, txs, receipt, readbackArgs,
                   price, isFresh, report, calls, nh, fv>>

\* STEP 2, run.ts:194-208
LoadDeployments ==
    /\ pc = "load"
    /\ LET loaded == loadDeployments(deploymentsFile)
       IN  IF ~loaded.ok
           THEN Throw(loaded.error)
           ELSE IF networkKey \notin deploymentsFile.keys
           THEN Throw(Err(<<"No deployment found for ", networkKey,
                            ". Please deploy the contract first.">>, <<>>))
           ELSE Continue("setup")
    /\ UNCHANGED <<env, deploymentsFile, balance, gatewayReqs, gatewayResps,
                   feedData, feeQueries, fee, txs, receipt, readbackArgs,
                   price, isFresh, report, calls, nh, fv>>

\* STEP 3, run.ts:220-228: provider (staticNetwork, so no chain-id request)
\* and wallet are built locally; getAddress of a Wallet is local too
SetupSigner ==
    /\ pc = "setup"
    /\ IF config.privateKey \notin ValidPrivateKeys
       THEN Throw(Err(<<"invalid private key">>, <<>>))
       ELSE Continue("getBalance")
    /\ UNCHANGED <<env, deploymentsFile, balance, gatewayReqs, gatewayResps,
                   feedData, feeQueries, fee, txs, receipt, readbackArgs,
                   price, isFresh, report, calls, nh, fv>>

\* run.ts:230-231
GetBalance ==
    /\ pc = "getBalance"
    /\ calls' = Append(calls, "getBalance")
    /\ \/ Throw(RpcError) /\ UNCHANGED balance
       \/ \E b \in 0..MaxWei : balance' = <<b>> /\ Continue("fetch")
    /\ UNCHANGED <<env, deploymentsFile, gatewayReqs, gatewayResps, feedData,
                   feeQueries, fee, txs, receipt, readbackArgs, price, isFresh, report,
                   nh, fv>>

FetchPrefix == "Failed to fetch feed data: "

\* faulty variant: the check of response.encoded is missing
FetchFeedDataNoEncodedCheck ==
    /\ pc = "fetch"
    /\ calls' = Append(calls, "fetchOracleQuote")
    /\ gatewayReqs' = Append(gatewayReqs,
            [feeds |-> <<feedHashForCrossbar(config.feedHash)>>,
             cluster |-> "mainnet"])
    /\ \/ /\ Throw(Err(<<FetchPrefix, "gateway error">>, <<>>))
          /\ UNCHANGED <<feedData, gatewayResps>>
       \/ \E encoded \in EncodedValues, medianResponses \in MedianResponses :
            /\ gatewayResps' = Append(gatewayResps,
                    [encoded |-> encoded, medianResponses |-> medianResponses])
            /\ IF medianResponses = <<>>
               THEN /\ Throw(Err(<<FetchPrefix, "No median response in data">>, <<>>))
                    /\ UNCHANGED feedData
               ELSE /\ feedData' = <<[feedHash |-> normalizeFeedHash(config.feedHash),
                                      value |-> medianResponses[1],
                                      encoded |-> encoded]>>
                    /\ Continue("getFee")
    /\ UNCHANGED <<env, deploymentsFile, balance, feeQueries, fee, txs, receipt,
                   readbackArgs, price, isFresh, report, nh, fv>>

\* fetchFeedData(config.feedHash), run.ts:107-158 and 234: one gateway
\* request; a rejection or a thrown shape error is rewrapped at run.ts:153-157
FetchFeedData ==
    /\ pc = "fetch"
    /\ calls' = Append(calls, "fetchOracleQuote")
    /\ gatewayReqs' = Append(gatewayReqs,
            [feeds |-> <<feedHashForCrossbar(config.feedHash)>>,
             cluster |-> "mainnet"])
    /\ \/ /\ Throw(Err(<<FetchPrefix, "gateway error">>, <<>>))
          /\ UNCHANGED <<feedData, gatewayResps>>
       \/ \E encoded \in EncodedValues, medianResponses \in MedianResponses :
            /\ gatewayResps' = Append(gatewayResps,
                    [encoded |-> encoded, medianResponses |-> medianResponses])
            /\ IF encoded = ""
               THEN /\ Throw(Err(<<FetchPrefix, "No encoded data in response">>, <<>>))
                    /\ UNCHANGED feedData
               ELSE IF medianResponses = <<>>
               THEN /\ Throw(Err(<<FetchPrefix, "No median response in data">>, <<>>))
                    /\ UNCHANGED feedData
               ELSE /\ feedData' = <<[feedHash |-> normalizeFeedHash(config.feedHash),
                                      value |-> medianResponses[1],
                                      encoded |-> encoded]>>
                    /\ Continue("getFee")
    /\ UNCHANGED <<env, deploymentsFile, balance, feeQueries, fee, txs, receipt,
                   readbackArgs, price, isFresh, report, nh, fv>>

\* STEP 4, run.ts:240-248
GetFee ==
    /\ pc = "getFee"
    /\ calls' = Append(calls, "getFee")
    /\ feeQueries' = Append(feeQueries, <<feedData[1].encoded>>)
    /\ \/ Throw(RpcError) /\ UNCHANGED fee
       \/ \E f \in 0..MaxWei : fee' = <<f>> /\ Continue("guard")
    /\ UNCHANGED <<env, deploymentsFile, balance, gatewayReqs, gatewayResps,
                   feedData, txs, receipt, readbackArgs, price, isFresh, report, nh, fv>>

\* faulty variant: no comparison of balance and fee
CheckBalanceNoGuard ==
    /\ pc = "guard"
    /\ Continue("submit")
    /\ UNCHANGED <<env, deploymentsFile, balance, gatewayReqs, gatewayResps,
                   feedData, feeQueries, fee, txs, receipt, readbackArgs,
                   price, isFresh, report, calls, nh, fv>>

\* run.ts:250-252: compares the balance read at run.ts:230
CheckBalance ==
    /\ pc = "guard"
    /\ IF balance[1] < fee[1]
       THEN Throw(Err(<<"Insufficient balance. Need ", " ETH, have ", " ETH">>,
                      <<fee[1], balance[1]>>))
       ELSE Continue("submit")
    /\ UNCHANGED <<env, deploymentsFile, balance, gatewayReqs, gatewayResps,
                   feedData, feeQueries, fee, txs, receipt, readbackArgs,
                   price, isFresh, report, calls, nh, fv>>

\* faulty variant: passes config.feedHash as it is
SubmitTxRawFeedId ==
    /\ pc = "submit"
    /\ calls' = Append(calls, "updatePrices")
    /\ txs' = Append(txs, [updates |-> <<feedData[1].encoded>>,
                           feedIds |-> <<config.feedHash>>,
                           value |-> fee[1]])
    /\ \/ Throw(RpcError)
       \/ Continue("wait")
    /\ UNCHANGED <<env, deploymentsFile, balance, gatewayReqs, gatewayResps,
                   feedData, feeQueries, fee, receipt, readbackArgs, price, isFresh,
                   report, nh, fv>>

\* STEP 5, run.ts:258-279
SubmitTx ==
    /\ pc = "submit"
    /\ calls' = Append(calls, "updatePrices")
    /\ LET feedIdForUpdate == normalizeFeedHash(config.feedHash)
       IN  txs' = Append(txs, [updates |-> <<feedData[1].encoded>>,
                               feedIds |-> <<feedIdForUpdate>>,
                               value |-> fee[1]])
    /\ \/ Throw(RpcError)
       \/ Continue("wait")
    /\ UNCHANGED <<env, deploymentsFile, balance, gatewayReqs, gatewayResps,
                   feedData, feeQueries, fee, receipt, readbackArgs, price, isFresh,
                   report, nh, fv>>

\* faulty variant: the confirmation is not awaited
WaitReceiptSkipped ==
    /\ pc = "wait"
    /\ \E s \in ReceiptStatuses : receipt' = <<[status |-> s]>>
    /\ Continue("readback")
    /\ UNCHANGED <<env, deploymentsFile, balance, gatewayReqs, gatewayResps,
                   feedData, feeQueries, fee, txs, readbackArgs, price, isFresh, report,
                   calls, nh, fv>>

\* run.ts:282-289: tx.wait() rejects or hands back a receipt, whose status
\* is printed (run.ts:288) and not tested
WaitReceipt ==
    /\ pc = "wait"
    /\ calls' = Append(calls, "wait")
    /\ \/ Throw(RpcError) /\ UNCHANGED receipt
       \/ \E s \in ReceiptStatuses :
            receipt' = <<[status |-> s]>> /\ Continue("readback")
    /\ UNCHANGED <<env, deploymentsFile, balance, gatewayReqs, gatewayResps,
                   feedData, feeQueries, fee, txs, readbackArgs, price, isFresh, report,
                   nh, fv>>

\* STEP 6, run.ts:295-302: the five view calls, one at a time
ReadBack ==
    /\ pc = "readback"
    /\ LET k == Len(readbackArgs) + 1
           feedId == normalizeFeedHash(config.feedHash)
       IN  /\ calls' = Append(calls, ReadBackCalls[k])
           /\ readbackArgs' = Append(readbackArgs,
                                     IF k <= 3 THEN <<feedId>> ELSE <<>>)
           /\ \/ Throw(RpcError) /\ UNCHANGED <<price, isFresh>>
              \/ /\ Continue(IF k = Len(ReadBackCalls) THEN "report" ELSE "readback")
                 /\ IF k = 1
                    THEN \E v \in PriceValues : price' = <<v>> /\ UNCHANGED isFresh
                    ELSE IF k = 2
                    THEN \E b \in BOOLEAN : isFresh' = <<b>> /\ UNCHANGED price
                    ELSE UNCHANGED <<price, isFresh>>
    /\ UNCHANGED <<env, deploymentsFile, balance, gatewayReqs, gatewayResps,
                   feedData, feeQueries, fee, txs, receipt, report, nh, fv>>

\* run.ts:304-317, then main returns
Report ==
    /\ pc = "report"
    /\ report' = <<formatValue(price[1], ReportDecimals)>>
    /\ pc' = "exited"
    /\ exitCode' = <<0>>
    /\ UNCHANGED <<env, deploymentsFile, balance, gatewayReqs, gatewayResps,
                   feedData, feeQueries, fee, txs, receipt, readbackArgs, price, isFresh,
                   calls, error, nh, fv>>

NhIdle == [input |-> <<>>, out |-> <<>>, again |-> <<>>, crossbar |-> <<>>]

FvIdle == [value |-> 0, decimals |-> 0, str |-> <<>>]

WorkflowFresh ==
    /\ balance = <<>>
    /\ gatewayReqs = <<>>
    /\ gatewayResps = <<>>
    /\ feedData = <<>>
    /\ feeQueries = <<>>
    /\ fee = <<>>
    /\ txs = <<>>
    /\ receipt = <<>>
    /\ readbackArgs = <<>>
    /\ price = <<>>
    /\ isFresh = <<>>
    /\ report = <<>>
    /\ calls = <<>>
    /\ exitCode = <<>>
    /\ error = NoError

Init ==
    /\ env \in EnvSet
    /\ deploymentsFile \in DeploymentFiles
    /\ pc = "validate"
    /\ WorkflowFresh
    /\ nh = NhIdle
    /\ fv = FvIdle

Next ==
    \/ ValidateConfig
    \/ LoadDeployments
    \/ SetupSigner
    \/ GetBalance
    \/ FetchFeedData
    \/ GetFee
    \/ CheckBalance
    \/ SubmitTx
    \/ WaitReceipt
    \/ ReadBack
    \/ Report

Spec == Init /\ [][Next]_vars

(***************************************************************************)
(* normalizeFeedHash and the gateway form of the identifier, applied to    *)
(* every identifier of HashInputs                                          *)
(***************************************************************************)
SeqsUpTo(n) == UNION {[1..k -> Alphabet] : k \in 0..n}

HashInputs ==
    SeqsUpTo(MaxLen) \cup {DefaultFeedHash, DefaultFeedHashDigits}

WorkflowIdle ==
    /\ env = [RPC_URL |-> "", PRIVATE_KEY |-> "", NETWORK |-> "", FEED_HASH |-> <<>>]
    /\ deploymentsFile = [exists |-> FALSE, valid |-> FALSE, keys |-> {}]
    /\ pc = "idle"
    /\ WorkflowFresh

NormInit ==
    /\ WorkflowIdle
    /\ fv = FvIdle
    /\ \E h \in HashInputs : nh = [NhIdle EXCEPT !.input = <<h>>]

Normalize ==
    /\ nh.input # <<>>
    /\ nh.out = <<>>
    /\ nh' = [nh EXCEPT !.out = <<normalizeFeedHash(nh.input[1])>>]
    /\ UNCHANGED <<fv>>
    /\ UNCHANGED wfVars

NormalizeAgain ==
    /\ nh.out # <<>>
    /\ nh.again = <<>>
    /\ nh' = [nh EXCEPT !.again = <<normalizeFeedHash(nh.out[1])>>]
    /\ UNCHANGED <<fv>>
    /\ UNCHANGED wfVars

StripForCrossbar ==
    /\ nh.input # <<>>
    /\ nh.crossbar = <<>>
    /\ nh' = [nh EXCEPT !.crossbar = <<feedHashForCrossbar(nh.input[1])>>]
    /\ UNCHANGED <<fv>>
    /\ UNCHANGED wfVars

NormNext == Normalize \/ NormalizeAgain \/ StripForCrossbar

NormSpec == NormInit /\ [][NormNext]_vars

(***************************************************************************)
(* formatValue applied to every value and scale within the bounds          *)
(***************************************************************************)
FmtInit ==
    /\ WorkflowIdle
    /\ nh = NhIdle
    /\ \E v \in (-MaxAbsValue)..MaxAbsValue, d \in 0..MaxDecimals :
          fv = [value |-> v, decimals |-> d, str |-> <<>>]

Format ==
    /\ fv.str = <<>>
    /\ fv' = [fv EXCEPT !.str = <<formatValue(fv.value, fv.decimals)>>]
    /\ UNCHANGED <<nh>>
    /\ UNCHANGED wfVars

FmtNext == Format

FmtSpec == FmtInit /\ [][FmtNext]_vars

(***************************************************************************)
(* Properties of the workflow (specification Spec)                         *)
(***************************************************************************)
Range(q) == {q[i] : i \in DOMAIN q}

IsPrefix(p, q) == Len(p) <= Len(q) /\ SubSeq(q, 1, Len(p)) = p

\* position of the first call of `fn` in calls, 0 when it was never issued
Pos(fn) ==
    IF fn \in Range(calls)
    THEN CHOOSE i \in DOMAIN calls :
            calls[i] = fn /\ \A j \in DOMAIN calls : calls[j] = fn => i <= j
    ELSE 0

\* `b` is issued only after `a` has been issued
Before(a, b) == Pos(b) # 0 => (Pos(a) # 0 /\ Pos(a) < Pos(b))

ConfigValid ==
    /\ config.rpcUrl # ""
    /\ config.privateKey # ""
    /\ config.network \in DOMAIN NETWORKS

DeploymentsLoaded == deploymentsFile.exists /\ deploymentsFile.valid

InsufficientBalanceError ==
    error.message = <<"Insufficient balance. Need ", " ETH, have ", " ETH">>

\* C1: when the balance is below the fee returned by the fee query, the run
\* ends with the insufficient-balance error (showing fee and balance) and
\* updatePrices is never called; the guard fails only when balance < fee.
BalanceGuardBlocksSubmission ==
    /\ (fee # <<>> /\ balance[1] < fee[1]) =>
          /\ "updatePrices" \notin Range(calls)
          /\ txs = <<>>
          /\ pc \in {"guard", "exited"}
          /\ pc = "exited" =>
                /\ exitCode = <<1>>
                /\ InsufficientBalanceError
                /\ error.amounts = <<fee[1], balance[1]>>
    /\ InsufficientBalanceError => (fee # <<>> /\ balance[1] < fee[1])

BalanceGuardFired ==
    /\ pc = "exited"
    /\ InsufficientBalanceError
    /\ fee # <<>>
    /\ balance[1] < fee[1]

\* C2: a network call is issued only after configuration validation and the
\* deployment-file load have succeeded; a missing deployments.json, an empty
\* credential or an unknown network key ends the run with no network call.
NoNetworkCallBeforeValidation ==
    /\ (calls # <<>> \/ gatewayReqs # <<>> \/ txs # <<>>) =>
          (ConfigValid /\ DeploymentsLoaded)
    /\ (pc = "exited" /\ (~deploymentsFile.exists \/ config.privateKey = ""
                          \/ config.network \notin DOMAIN NETWORKS)) =>
          /\ calls = <<>>
          /\ gatewayReqs = <<>>
          /\ txs = <<>>
          /\ exitCode = <<1>>

MissingDeploymentsStopped ==
    /\ pc = "exited"
    /\ ConfigValid
    /\ ~deploymentsFile.exists
    /\ exitCode = <<1>>

ReadBackIssued == Range(calls) \cap Range(ReadBackCalls) # {}

\* C3: a receipt whose status is not 1 is fatal: no read-back call is issued,
\* the report is never produced, the exit code is 1 and there is no second
\* transaction.
RevertedReceiptIsFatal ==
    (receipt # <<>> /\ receipt[1].status # 1) =>
        /\ ~ReadBackIssued
        /\ report = <<>>
        /\ pc = "exited" => exitCode = <<1>>
        /\ Len(txs) <= 1

\* C4: a gateway response without encoded payload or without a first median
\* response ends the run with exit code 1 and the wrapped error naming the
\* missing field; the gateway was queried once, and neither the fee query
\* nor the submission follows.
GatewayShapeErrorIsFatal ==
    \A i \in DOMAIN gatewayResps :
        LET r == gatewayResps[i]
        IN  (r.encoded = "" \/ r.medianResponses = <<>>) =>
               /\ pc = "exited"
               /\ exitCode = <<1>>
               /\ error.message =
                     <<"Failed to fetch feed data: ",
                       IF r.encoded = "" THEN "No encoded data in response"
                       ELSE "No median response in data">>
               /\ Len(gatewayReqs) = 1
               /\ Len(gatewayResps) = 1
               /\ Range(calls) \cap {"getFee", "updatePrices"} = {}
               /\ feeQueries = <<>>
               /\ txs = <<>>

MissingMedianStopped ==
    /\ pc = "exited"
    /\ gatewayResps # <<>>
    /\ gatewayResps[1].encoded # ""
    /\ gatewayResps[1].medianResponses = <<>>

CallOrder == <<"getBalance", "fetchOracleQuote", "getFee", "updatePrices",
               "wait", "getPrice", "isPriceFresh", "getPriceAge",
               "maxPriceAge", "maxDeviationBps">>

AllStepsSucceeded ==
    /\ ConfigValid
    /\ DeploymentsLoaded
    /\ calls = CallOrder
    /\ error = NoError
    /\ balance[1] >= fee[1]
    /\ receipt # <<>>
    /\ receipt[1].status = 1
    /\ report # <<>>

\* C5: the exit code is 0 exactly when every step succeeded (the receipt
\* included) and 1 when a step failed; a failed step ends the run.
ExitCodeContract ==
    /\ error # NoError => (pc = "exited" /\ exitCode = <<1>>)
    /\ pc = "exited" =>
          /\ exitCode \in {<<0>>, <<1>>}
          /\ exitCode = <<0>> <=> AllStepsSucceeded
          /\ exitCode = <<1>> <=> error # NoError

\* C6 as stated: validation, then quote retrieval, fee estimation, the
\* balance query and guard, submission, confirmation, read-back; the balance
\* is queried after the quote retrieval.
StagesInClaimedOrder ==
    /\ calls # <<>> => ConfigValid
    /\ Before("fetchOracleQuote", "getFee")
    /\ Before("fetchOracleQuote", "getBalance")
    /\ Before("getBalance", "updatePrices")
    /\ Before("getFee", "updatePrices")
    /\ Before("updatePrices", "wait")
    /\ \A k \in DOMAIN ReadBackCalls : Before("wait", ReadBackCalls[k])

\* C6 (amended): the calls are issued one after the other in the order
\* balance query, quote retrieval, fee query, submission, confirmation,
\* read-back, all after validation; the guard precedes the submission and
\* compares the balance that was queried before the quote retrieval.
StagesInCodeOrder ==
    /\ calls # <<>> => ConfigValid
    /\ IsPrefix(calls, CallOrder)
    /\ Before("getBalance", "fetchOracleQuote")
    /\ "fetchOracleQuote" \in Range(calls) =>
          (pc = "exited" \/ balance # <<>>)
    /\ "updatePrices" \in Range(calls) => balance[1] >= fee[1]
    /\ Len(balance) + Len(fee) + Len(receipt) + Len(gatewayResps) <= Len(calls)

FullRunCompleted ==
    /\ pc = "exited"
    /\ calls = CallOrder
    /\ report # <<>>

\* C7: every submitted transaction carries one payload and one feed id: the
\* payload returned by the gateway fetch of this run, the normalized
\* configured feed identifier (the one the read-back uses), and as value the
\* fee returned by the fee query for that same payload list.
SubmittedTxWellFormed ==
    \A i \in DOMAIN txs :
        LET t == txs[i]
        IN  /\ Len(t.updates) = 1
            /\ Len(t.feedIds) = 1
            /\ gatewayResps # <<>>
            /\ t.updates[1] = gatewayResps[Len(gatewayResps)].encoded
            /\ t.updates[1] # ""
            /\ t.feedIds[1] = normalizeFeedHash(config.feedHash)
            /\ \A k \in DOMAIN readbackArgs :
                  readbackArgs[k] # <<>> => readbackArgs[k] = t.feedIds
            /\ fee # <<>>
            /\ t.value = fee[1]
            /\ feeQueries = <<t.updates>>

UnprefixedFeedSubmitted ==
    /\ txs # <<>>
    /\ ~StartsWith(config.feedHash, Prefix0x)
    /\ Len(readbackArgs) = Len(ReadBackCalls)

(***************************************************************************)
(* Properties of normalizeFeedHash (specification NormSpec)                *)
(***************************************************************************)
HexBody(h) == IF StartsWith(h, Prefix0x) THEN SliceFrom(h, 2) ELSE h

IsHexId(h) ==
    /\ HexBody(h) # <<>>
    /\ \A i \in DOMAIN HexBody(h) :
          HexBody(h)[i] \in LowerHexDigits \cup UpperHexDigits

LowerCase(s) == [i \in 1..Len(s) |-> ToLowerChar(s[i])]

\* C8 as stated: the result is '0x' followed by lowercase hex digits only,
\* and identifiers that differ only in letter case or in the presence of the
\* prefix get the same result.
NormalizedIsLowercase ==
    (nh.out # <<>> /\ IsHexId(nh.input[1])) =>
        /\ StartsWith(nh.out[1], Prefix0x)
        /\ \A i \in 3..Len(nh.out[1]) : nh.out[1][i] \in LowerHexDigits
        /\ \A g \in HashInputs :
              (IsHexId(g)
               /\ LowerCase(HexBody(g)) = LowerCase(HexBody(nh.input[1]))) =>
                  normalizeFeedHash(g) = nh.out[1]

\* C8 (amended): the result is '0x' followed by the identifier's hex digits
\* in the letter case they were given in, so identifiers that differ only in
\* the presence of the prefix get the same result.
NormalizedKeepsCase ==
    (nh.out # <<>> /\ IsHexId(nh.input[1])) =>
        /\ StartsWith(nh.out[1], Prefix0x)
        /\ nh.out[1] = Prefix0x \o HexBody(nh.input[1])
        /\ \A g \in HashInputs :
              (IsHexId(g) /\ HexBody(g) = HexBody(nh.input[1])) =>
                  normalizeFeedHash(g) = nh.out[1]

UppercaseIdNormalized ==
    /\ nh.out # <<>>
    /\ IsHexId(nh.input[1])
    /\ ~StartsWith(nh.input[1], Prefix0x)
    /\ \E i \in DOMAIN nh.input[1] : nh.input[1][i] \in UpperHexDigits

\* C10: normalizing twice gives the result of normalizing once; a prefixed
\* identifier is returned unchanged; an unprefixed one gets the prefix once
\* (64 characters become 66); the gateway form is the identifier without
\* the prefix (64 characters for the 64-digit identifier).
NormalizeIdempotent ==
    /\ nh.again # <<>> => nh.again = nh.out
    /\ nh.out # <<>> =>
          IF StartsWith(nh.input[1], Prefix0x)
          THEN nh.out[1] = nh.input[1]
          ELSE /\ nh.out[1] = Prefix0x \o nh.input[1]
               /\ Len(nh.out[1]) = Len(nh.input[1]) + 2
               /\ Len(nh.input[1]) = 64 => Len(nh.out[1]) = 66
    /\ nh.crossbar # <<>> =>
          /\ nh.crossbar[1] = HexBody(nh.input[1])
          /\ nh.out # <<>> => Prefix0x \o nh.crossbar[1] = nh.out[1]
          /\ nh.input[1] \in {DefaultFeedHash, DefaultFeedHashDigits} =>
                (nh.crossbar[1] = DefaultFeedHashDigits
                 /\ Len(nh.crossbar[1]) = 64)

Unprefixed64Normalized ==
    /\ nh.input = <<DefaultFeedHashDigits>>
    /\ nh.again # <<>>
    /\ Len(nh.out[1]) = 66
    /\ nh.crossbar # <<>>

(***************************************************************************)
(* Properties of formatValue (specification FmtSpec)                       *)
(***************************************************************************)
IsDigits(s) == s # <<>> /\ \A i \in DOMAIN s : s[i] \in Range(DecDigits)

DigitVal(c) == CHOOSE k \in 0..9 : DecDigits[k + 1] = c

RECURSIVE DigitsToNat(_)
DigitsToNat(s) ==
    IF s = <<>> THEN 0
    ELSE 10 * DigitsToNat(SubSeq(s, 1, Len(s) - 1)) + DigitVal(s[Len(s)])

\* the decimal number written in s, times 10^d: <<n>>, or <<>> when s is not
\* of the form [-]digits[.digits] or has more than d fraction digits
ParseScaled(s, d) ==
    LET neg == s # <<>> /\ s[1] = "-"
        body == IF neg THEN Tail(s) ELSE s
        sign == IF neg THEN -1 ELSE 1
        dots == {i \in DOMAIN body : body[i] = "."}
    IN  IF dots = {}
        THEN IF IsDigits(body)
             THEN <<sign * DigitsToNat(body) * Pow10(d)>>
             ELSE <<>>
        ELSE LET p == CHOOSE i \in dots : \A j \in dots : i <= j
                 ip == SubSeq(body, 1, p - 1)
                 fp == SubSeq(body, p + 1, Len(body))
             IN  IF IsDigits(ip) /\ IsDigits(fp) /\ Len(fp) <= d
                 THEN <<sign * (DigitsToNat(ip) * Pow10(d)
                                + DigitsToNat(fp) * Pow10(d - Len(fp)))>>
                 ELSE <<>>

\* C9: parsing formatValue(v, d) as a decimal number and multiplying by 10^d
\* gives v again, for negative values too.
FormatRoundTrips ==
    fv.str # <<>> => ParseScaled(fv.str[1], fv.decimals) = <<fv.value>>

====
